---- MODULE Spec2Model ----
(***************************************************************************)
(* Model of the myopia-dx backend: the stored documents (Patient,          *)
(* RetinalImage, Diagnosis), the diagnosis-creation workflow of            *)
(* controllers/diagnosisController.js with the two inference calls of the  *)
(* inference service (runYOLO, runResNet, each wrapped in async-retry),    *)
(* and the get/update/delete handlers with their ownership checks.         *)
(***************************************************************************)
EXTENDS Integers, Sequences, FiniteSets, TLC

(* ------------------------------ bounds -------------------------------- *)
MaxPatients == 2
MaxImages == 2
MaxDiag == 2
NumReq == 2
\* diagnoses (one per image) stored when the severity statistics are asked
MaxStat == 3
\* Recommendation documents stored
MaxRecs == 1

(* -------------------------- program constants ------------------------- *)
\* const MAX_RETRIES = parseInt(process.env.INFERENCE_MAX_RETRIES) || 3
MAX_RETRIES == 3
\* recommendationText.slice(0, 1000)
SliceEnd == 1000

Doctors == {"docA", "docB"}
PatientIds == 1..MaxPatients
ImageIds == 1..MaxImages
DiagIds == 1..MaxDiag
ReqIds == 1..NumReq

\* A null or undefined field, no value.
Null == "null"
\* What findById gives for an id no document has.
NoDoc == [absent |-> TRUE]

\* enum of diagnosisSchema.severityLevel
SeverityEnum == {"normal", "low", "medium", "high", "severe"}

\* What one axios.post of an inference attempt can end with.  A thrown error:
\* "transient" is a network error, a timeout or an HTTP 5xx answer, "http4xx"
\* an HTTP 4xx answer (axios rejects every non-2xx status).  Or a delivered
\* 2xx answer, named by its body.
ThrownErrors == {"transient", "http4xx"}
\* detections array with output_image, detections array without it, no
\* detections array
YoloBodies == {"dets_img", "dets", "nodets"}
\* severity_level: a string of the enum, a string outside the enum, missing
\* or empty or not a string
ResNetBodies == {"high", "extreme", "missing"}

\* the path the detector returns as output_image
OutPath == "out"
Paths == {Null, OutPath}
Notes == {"n1"}
\* the name an update request carries, as a sequence of characters
Names == {<<"b", "c">>}
\* the `search` query strings tried
Searches == {<<"a">>, <<"b">>, <<"b", "c">>}
\* contactInfo.email values
Emails == {"e1"}

VARIABLES
  patients,   \* Patient collection: PatientIds -> document or NoDoc
  images,     \* RetinalImage collection: ImageIds -> document or NoDoc
  diagnoses,  \* Diagnosis collection: DiagIds -> document or NoDoc
  files,      \* ids of the images whose original file is on disk
  reqs,       \* the createDiagnosis requests being handled, per slot
  last,       \* the answer of the last single-step handler
  recommendations,  \* Recommendation collection: the documents, in the order saved
  genAI       \* the text-generation service: the diagnosis whose details the
              \* last prompt it was sent carried, and its response to it

vars == <<patients, images, diagnoses, files, reqs, last, recommendations, genAI>>

(* ------------------------------ documents ----------------------------- *)
\* no prompt sent yet to genAI.models.generateContent, no response
NoPrompt == [prompt |-> 0, response |-> [kind |-> "none", text |-> <<>>]]
PatientDoc(d, n, e) == [doctorId |-> d, name |-> n, email |-> e]
ImageDoc(p, y) == [patientId |-> p, yoloOutputPath |-> y]
DiagnosisDoc(i, s, n) == [retinalImageId |-> i, severityLevel |-> s, notes |-> n]

\* Diagnosis.find({ retinalImageId: i })
DiagnosesOf(i) == {d \in DiagIds : diagnoses[d] # NoDoc /\ diagnoses[d].retinalImageId = i}
\* RetinalImage.find({ patientId: p })
ImagesOf(p) == {i \in ImageIds : images[i] # NoDoc /\ images[i].patientId = p}

FreeDiagIds == {d \in DiagIds : diagnoses[d] = NoDoc}
\* the _id a new Diagnosis document gets
NewDiagId == CHOOSE d \in FreeDiagIds : \A e \in FreeDiagIds : d <= e

\* populate("patientId"): the Patient document an image refers to, or Null
PatientOfImage(i) ==
  IF images[i] = NoDoc THEN NoDoc
  ELSE IF images[i].patientId \in PatientIds THEN patients[images[i].patientId]
  ELSE NoDoc

(* --------------------------- inference calls -------------------------- *)
\* One runYOLO / runResNet call: st is idle (not called), run (an HTTP
\* attempt is in flight), ok (resolved) or fail (rejected); attempts is the
\* number of axios.post calls made so far; errors the kinds of error the
\* attempts so far threw (node-retry keeps them in op._errors); out the body
\* of the delivered response, or "nofile".
IdleCall == [st |-> "idle", attempts |-> 0, errors |-> {}, out |-> Null]
FirstAttempt == [st |-> "run", attempts |-> 1, errors |-> {}, out |-> Null]
NoFileCall == [st |-> "fail", attempts |-> 0, errors |-> {}, out |-> "nofile"]

\* Variants of the retry decision the claims are sensitive to: no error is
\* retried; an invalid delivered response is retried too; only network,
\* timeout and 5xx errors are retried.
isRetried_never(outcome) == FALSE
isRetried_invalidToo(outcome) == outcome \in ThrownErrors \cup {"nodets", "missing"}
isRetried_only5xx(outcome) == outcome = "transient"

\* async-retry onError: every error fn throws is handed to op.retry (none
\* sets .bail); a resolved fn resolves the retry.
isRetried(outcome) == outcome \in ThrownErrors

\* Variant: `retries` read as the number of attempts.
retryAllows_asAttempts(attempts) == attempts < MAX_RETRIES

\* node-retry op.retry(err): the timeouts list has `retries` entries, one is
\* shifted per failed attempt; retry while one is left.
retryAllows(attempts) == attempts <= MAX_RETRIES

\* !data.detections || !Array.isArray(data.detections)
yoloValid(body) == body \in {"dets_img", "dets"}
\* !data.severity_level || typeof data.severity_level !== "string"
resnetValid(body) == body \in {"high", "extreme"}

\* The call after its attempt in flight ended with `outcome`.
afterAttempt(call, outcome, valid) ==
  IF isRetried(outcome)
  THEN IF retryAllows(call.attempts)
       THEN [call EXCEPT !.attempts = @ + 1, !.errors = @ \cup {outcome}]
       ELSE [call EXCEPT !.st = "fail", !.errors = @ \cup {outcome}]
  ELSE IF valid THEN [call EXCEPT !.st = "ok", !.out = outcome]
       ELSE [call EXCEPT !.st = "fail", !.out = outcome]

(* ------------------------------ requests ------------------------------ *)
IdleReq ==
  [pc |-> "idle", user |-> Null, image |-> 0, status |-> 0,
   yolo |-> IdleCall, resnet |-> IdleCall, created |-> 0,
   preYolo |-> Null, preCount |-> 0, preFile |-> TRUE]

InFlight(r) == reqs[r].pc \notin {"idle", "done"}
Quiescent == \A r \in ReqIds : ~InFlight(r)

Respond(rec, code) == [rec EXCEPT !.pc = "done", !.status = code]

\* The answer of a single-step handler: res.status(status).json(...), with
\* the document (data) or the documents (list) it carries.  rel is how the
\* target stood to the requesting user when the request arrived, changed
\* whether the handler wrote to a collection or to the disk, logged the
\* errors the handler caught and only wrote to the console, unlinks the files
\* the handler called fs.unlink on.
Answer(op, u, t, rel, status, data, list, changed) ==
  [op |-> op, user |-> u, target |-> t, rel |-> rel, status |-> status,
   data |-> data, list |-> list, changed |-> changed, logged |-> {}, unlinks |-> {}]
NoAnswer == Answer("none", Null, 0, Null, 0, NoDoc, {}, FALSE)

Init ==
  /\ patients = [p \in PatientIds |->
       IF p = 1 THEN PatientDoc("docA", <<"a", "b">>, Null)
       ELSE PatientDoc("docB", <<"b", "c">>, IF p = 2 THEN "e1" ELSE Null)]
  /\ images = [i \in ImageIds |-> ImageDoc(IF i <= MaxPatients THEN i ELSE 1, Null)]
  /\ diagnoses = [d \in DiagIds |-> NoDoc]
  /\ files = ImageIds
  /\ reqs = [r \in ReqIds |-> IdleReq]
  /\ last = NoAnswer
  /\ recommendations = <<>>
  /\ genAI = NoPrompt

\* createDiagnosis, lines 39-42: the body fails validateCreateDiagnosis
\* (retinalImageId is not a Mongo id); image 0 stands for no image id.
createDiagnosis_invalid(r, u) ==
  /\ ~InFlight(r)
  /\ reqs' = [reqs EXCEPT ![r] = Respond([IdleReq EXCEPT !.user = u], 400)]
  /\ UNCHANGED <<recommendations, genAI, patients, images, diagnoses, files, last>>

\* Variant: the duplicate check made first, ahead of the ownership check.
createDiagnosis_findById_dupFirst(r, u, i) ==
  /\ ~InFlight(r)
  /\ LET fresh == [IdleReq EXCEPT !.user = u, !.image = i,
                     !.preYolo = IF images[i] = NoDoc THEN Null ELSE images[i].yoloOutputPath,
                     !.preCount = Cardinality(DiagnosesOf(i))]
     IN reqs' = [reqs EXCEPT ![r] =
          IF images[i] = NoDoc THEN Respond(fresh, 404)
          ELSE IF DiagnosesOf(i) # {} THEN Respond(fresh, 400)
          ELSE IF PatientOfImage(i) = NoDoc THEN Respond(fresh, 500)
          ELSE IF PatientOfImage(i).doctorId # u THEN Respond(fresh, 403)
          ELSE [fresh EXCEPT !.pc = "findOne"]]
  /\ UNCHANGED <<recommendations, genAI, patients, images, diagnoses, files, last>>

\* createDiagnosis, lines 46-52: RetinalImage.findById(...).populate(patientId)
\* and the ownership check.  preYolo and preCount record what the request
\* found stored when it arrived, preFile whether the image file was on disk
\* when the inference calls were made.
createDiagnosis_findById(r, u, i) ==
  /\ ~InFlight(r)
  /\ LET fresh == [IdleReq EXCEPT !.user = u, !.image = i,
                     !.preYolo = IF images[i] = NoDoc THEN Null ELSE images[i].yoloOutputPath,
                     !.preCount = Cardinality(DiagnosesOf(i))]
     IN reqs' = [reqs EXCEPT ![r] =
          IF images[i] = NoDoc THEN Respond(fresh, 404)
          ELSE IF PatientOfImage(i) = NoDoc THEN Respond(fresh, 500)
          ELSE IF PatientOfImage(i).doctorId # u THEN Respond(fresh, 403)
          ELSE [fresh EXCEPT !.pc = "findOne"]]
  /\ UNCHANGED <<recommendations, genAI, patients, images, diagnoses, files, last>>

\* Variant: the duplicate check finds nothing.
existingDiagnosis_skipped(i) == FALSE

\* Diagnosis.findOne({ retinalImageId: i }) finds a document
existingDiagnosis(i) == DiagnosesOf(i) # {}

\* Variant: the inference calls are started before the duplicate check.
createDiagnosis_findOne_inferFirst(r) ==
  /\ reqs[r].pc = "findOne"
  /\ reqs' = [reqs EXCEPT ![r] =
       IF DiagnosesOf(reqs[r].image) # {}
       THEN Respond([reqs[r] EXCEPT !.yolo = FirstAttempt, !.resnet = FirstAttempt], 400)
       ELSE [reqs[r] EXCEPT !.pc = "infer", !.yolo = FirstAttempt, !.resnet = FirstAttempt,
                            !.preFile = reqs[r].image \in files]]
  /\ UNCHANGED <<recommendations, genAI, patients, images, diagnoses, files, last>>

\* Variant: the calls go to the network without looking for the file.
existsSync_unchecked(i) == TRUE

\* fs.existsSync(imagePath) at the head of runYOLO and of runResNet
existsSync(i) == i \in files

\* createDiagnosis, lines 55-63: Diagnosis.findOne({ retinalImageId }), then
\* both inference calls are started; each checks fs.existsSync before its
\* first axios.post (both on the same tick, so both see the same disk).
createDiagnosis_findOne(r) ==
  /\ reqs[r].pc = "findOne"
  /\ reqs' = [reqs EXCEPT ![r] =
       IF existingDiagnosis(reqs[r].image) THEN Respond(reqs[r], 400)
       ELSE IF ~existsSync(reqs[r].image)
       THEN Respond([reqs[r] EXCEPT !.yolo = NoFileCall, !.resnet = NoFileCall,
                                    !.preFile = reqs[r].image \in files], 500)
       ELSE [reqs[r] EXCEPT !.pc = "infer", !.yolo = FirstAttempt, !.resnet = FirstAttempt,
                            !.preFile = reqs[r].image \in files]]
  /\ UNCHANGED <<recommendations, genAI, patients, images, diagnoses, files, last>>

\* Variant: a rejection of a call is never handed to the handler, which
\* goes on only when both calls have resolved.
joined_noReject(rec) ==
  IF rec.pc # "infer" THEN rec
  ELSE IF rec.yolo.st = "ok" /\ rec.resnet.st = "ok" THEN [rec EXCEPT !.pc = "save"]
  ELSE rec

\* Variant: the handler goes on once both calls have settled, a rejection
\* ignored (Promise.allSettled).
joined_allSettled(rec) ==
  IF rec.pc # "infer" THEN rec
  ELSE IF rec.yolo.st # "run" /\ rec.resnet.st # "run" THEN [rec EXCEPT !.pc = "save"]
  ELSE rec

\* Promise.all([runYOLO, runResNet]) seen from the handler once a call has
\* settled: it rejects with the first rejection (the catch answers 500, the
\* other call goes on unobserved) and resolves when both have resolved.
joined(rec) ==
  IF rec.pc # "infer" THEN rec
  ELSE IF rec.yolo.st = "fail" \/ rec.resnet.st = "fail" THEN Respond(rec, 500)
  ELSE IF rec.yolo.st = "ok" /\ rec.resnet.st = "ok" THEN [rec EXCEPT !.pc = "save"]
  ELSE rec

\* runYOLO, lines 40-65: one attempt of the retried axios.post ends.
runYOLO_attempt(r, outcome) ==
  /\ reqs[r].yolo.st = "run"
  /\ reqs' = [reqs EXCEPT ![r] =
       joined([reqs[r] EXCEPT !.yolo = afterAttempt(reqs[r].yolo, outcome, yoloValid(outcome))])]
  /\ UNCHANGED <<recommendations, genAI, patients, images, diagnoses, files, last>>

\* runResNet, lines 90-115: one attempt of the retried axios.post ends.
runResNet_attempt(r, outcome) ==
  /\ reqs[r].resnet.st = "run"
  /\ reqs' = [reqs EXCEPT ![r] =
       joined([reqs[r] EXCEPT !.resnet = afterAttempt(reqs[r].resnet, outcome, resnetValid(outcome))])]
  /\ UNCHANGED <<recommendations, genAI, patients, images, diagnoses, files, last>>

\* the value createDiagnosis assigns to retinalImage.yoloOutputPath
mergedOutputPath(body) == IF body = "dets_img" THEN OutPath ELSE Null

\* Variant: the path is written only when the detector returned an output
\* image, and is left as it was otherwise.
createDiagnosis_save_keepStale(r) ==
  /\ reqs[r].pc = "save"
  /\ LET i == reqs[r].image IN
     IF images[i] = NoDoc
     THEN /\ reqs' = [reqs EXCEPT ![r] = Respond(reqs[r], 500)]
          /\ UNCHANGED images
     ELSE /\ images' = [images EXCEPT ![i].yoloOutputPath =
                          IF reqs[r].yolo.out = "dets_img" THEN OutPath ELSE @]
          /\ reqs' = [reqs EXCEPT ![r].pc = "create"]
  /\ UNCHANGED <<recommendations, genAI, patients, diagnoses, files, last>>

\* createDiagnosis, lines 69-76: retinalImage.save() with the new output path
createDiagnosis_save(r) ==
  /\ reqs[r].pc = "save"
  /\ LET i == reqs[r].image IN
     IF images[i] = NoDoc
     THEN /\ reqs' = [reqs EXCEPT ![r] = Respond(reqs[r], 500)]
          /\ UNCHANGED images
     ELSE /\ images' = [images EXCEPT ![i].yoloOutputPath = mergedOutputPath(reqs[r].yolo.out)]
          /\ reqs' = [reqs EXCEPT ![r].pc = "create"]
  /\ UNCHANGED <<recommendations, genAI, patients, diagnoses, files, last>>

\* createDiagnosis, lines 78-83: Diagnosis.create; the schema's enum rejects
\* a severityLevel outside it (ValidationError, answered 500 by the catch).
createDiagnosis_create(r) ==
  /\ reqs[r].pc = "create"
  /\ IF reqs[r].resnet.out \notin SeverityEnum
     THEN /\ reqs' = [reqs EXCEPT ![r] = Respond(reqs[r], 500)]
          /\ UNCHANGED diagnoses
     ELSE /\ FreeDiagIds # {}
          /\ diagnoses' = [diagnoses EXCEPT ![NewDiagId] =
               DiagnosisDoc(reqs[r].image, reqs[r].resnet.out, "n0")]
          /\ reqs' = [reqs EXCEPT ![r].pc = "populate", ![r].created = NewDiagId]
  /\ UNCHANGED <<recommendations, genAI, patients, images, files, last>>

\* createDiagnosis, lines 86-95: Diagnosis.findById(...).populate, answer 201
createDiagnosis_populate(r) ==
  /\ reqs[r].pc = "populate"
  /\ reqs' = [reqs EXCEPT ![r] = Respond(reqs[r], 201)]
  /\ UNCHANGED <<recommendations, genAI, patients, images, diagnoses, files, last>>

\* createDiagnosis, lines 96-101: a database operation the handler awaits
\* (findOne 55, save 72/75, create 78, findById + populate 86) rejects, the
\* connection being lost, and the catch answers 500.
createDiagnosis_dbRejects(r) ==
  /\ reqs[r].pc \in {"findOne", "save", "create", "populate"}
  /\ reqs' = [reqs EXCEPT ![r] = Respond(reqs[r], 500)]
  /\ UNCHANGED <<recommendations, genAI, patients, images, diagnoses, files, last>>

(* ------------------------- ownership chain ---------------------------- *)
\* How a stored Patient / RetinalImage / Diagnosis stands to user u along the
\* chain diagnosis -> image -> patient -> doctor: "missing" (no such
\* document), "broken" (a document of the chain is gone), "owner", "foreign".
relPatient(u, p) ==
  IF patients[p] = NoDoc THEN "missing"
  ELSE IF patients[p].doctorId = u THEN "owner" ELSE "foreign"
relImage(u, i) ==
  IF images[i] = NoDoc THEN "missing"
  ELSE IF PatientOfImage(i) = NoDoc THEN "broken"
  ELSE relPatient(u, images[i].patientId)
relDiagnosis(u, d) ==
  IF diagnoses[d] = NoDoc THEN "missing"
  ELSE IF diagnoses[d].retinalImageId \notin ImageIds THEN "broken"
  ELSE IF relImage(u, diagnoses[d].retinalImageId) = "missing" THEN "broken"
  ELSE relImage(u, diagnoses[d].retinalImageId)

Wrote == <<patients, images, diagnoses, files>>' # <<patients, images, diagnoses, files>>

(* ------------------------- patient handlers --------------------------- *)
\* Variant: the filter without doctorId.
findOwnPatient_anyDoctor(u, p) == patients[p]

\* Patient.findOne({ _id: p, doctorId: u }), the filter of getPatientById,
\* findOneAndUpdate and findOneAndDelete
findOwnPatient(u, p) ==
  IF patients[p] # NoDoc /\ patients[p].doctorId = u THEN patients[p] ELSE NoDoc

getPatientById_status(u, p) == IF findOwnPatient(u, p) = NoDoc THEN 404 ELSE 200

getPatientById(u, p) ==
  /\ UNCHANGED <<recommendations, genAI, patients, images, diagnoses, files, reqs>>
  /\ last' = Answer("getPatientById", u, p, relPatient(u, p), getPatientById_status(u, p),
                    findOwnPatient(u, p), {}, Wrote)

\* Patient.findOne({ "contactInfo.email": e, _id: { $ne: p } })
emailTaken(p, e) ==
  \E q \in PatientIds \ {p} : patients[q] # NoDoc /\ patients[q].email = e

\* e = Null: the body has no contactInfo
updatePatient_status(u, p, e) ==
  IF e # Null /\ emailTaken(p, e) THEN 400
  ELSE IF findOwnPatient(u, p) = NoDoc THEN 404
  ELSE 200

\* $set: updates, which hold the body's name and contactInfo and never a
\* doctorId
updatePatient(u, p, n, e) ==
  /\ patients' = IF updatePatient_status(u, p, e) = 200
                 THEN [patients EXCEPT ![p].name = n, ![p].email = IF e # Null THEN e ELSE @]
                 ELSE patients
  /\ UNCHANGED <<recommendations, genAI, images, diagnoses, files, reqs>>
  /\ last' = Answer("updatePatient", u, p, relPatient(u, p), updatePatient_status(u, p, e),
                    IF updatePatient_status(u, p, e) = 200 THEN patients'[p] ELSE NoDoc, {}, Wrote)

FreePatientIds == {p \in PatientIds : patients[p] = NoDoc}
\* the _id a new Patient document gets
NewPatientId == CHOOSE p \in FreePatientIds : \A q \in FreePatientIds : p <= q

\* e = Null: the body has no contactInfo.email
createPatient_status(e) == IF e # Null /\ emailTaken(0, e) THEN 400 ELSE 201

\* Variant: the owning doctor is taken from the request body (any doctor).
createPatient_doctorFromBody(u, n, e) ==
  /\ createPatient_status(e) = 201 => FreePatientIds # {}
  /\ \E b \in Doctors :
       patients' = IF createPatient_status(e) = 201
                   THEN [patients EXCEPT ![NewPatientId] = PatientDoc(b, n, e)]
                   ELSE patients
  /\ UNCHANGED <<recommendations, genAI, images, diagnoses, files, reqs>>
  /\ last' = Answer("createPatient", u, IF createPatient_status(e) = 201 THEN NewPatientId ELSE 0,
                    "missing", createPatient_status(e),
                    IF createPatient_status(e) = 201 THEN patients'[NewPatientId] ELSE NoDoc,
                    {}, Wrote)

\* createPatient, lines 124-163: the email check, then new Patient({ doctorId:
\* req.user.id, ... }).save()
createPatient(u, n, e) ==
  /\ createPatient_status(e) = 201 => FreePatientIds # {}
  /\ patients' = IF createPatient_status(e) = 201
                 THEN [patients EXCEPT ![NewPatientId] = PatientDoc(u, n, e)]
                 ELSE patients
  /\ UNCHANGED <<recommendations, genAI, images, diagnoses, files, reqs>>
  /\ last' = Answer("createPatient", u, IF createPatient_status(e) = 201 THEN NewPatientId ELSE 0,
                    "missing", createPatient_status(e),
                    IF createPatient_status(e) = 201 THEN patients'[NewPatientId] ELSE NoDoc,
                    {}, Wrote)

\* Variant: the patient is deleted without counting its images.
deletePatient_status_noImageCount(u, p) ==
  IF findOwnPatient(u, p) = NoDoc THEN 404 ELSE 200

\* RetinalImage.countDocuments({ patientId: p }) > 0, then
\* Patient.findOneAndDelete({ _id: p, doctorId: u })
deletePatient_status(u, p) ==
  IF ImagesOf(p) # {} THEN 400
  ELSE IF findOwnPatient(u, p) = NoDoc THEN 404
  ELSE 200

deletePatient(u, p) ==
  /\ patients' = IF deletePatient_status(u, p) = 200
                 THEN [patients EXCEPT ![p] = NoDoc] ELSE patients
  /\ UNCHANGED <<recommendations, genAI, images, diagnoses, files, reqs>>
  /\ last' = Answer("deletePatient", u, p, relPatient(u, p), deletePatient_status(u, p),
                    NoDoc, {}, Wrote)

(* ---------------------- retinal image handlers ------------------------ *)
\* Variant: an image of another doctor is answered as if absent.
imageGate_hidden(u, i) ==
  IF images[i] = NoDoc THEN 404
  ELSE IF PatientOfImage(i) = NoDoc THEN 500
  ELSE IF PatientOfImage(i).doctorId # u THEN 404
  ELSE 0

\* The first checks of getRetinalImageById / updateRetinalImage /
\* deleteRetinalImage: 0 when they pass, else the status answered.
\* retinalImage.patientId.doctorId of a null patientId throws (500).
imageGate(u, i) ==
  IF images[i] = NoDoc THEN 404
  ELSE IF PatientOfImage(i) = NoDoc THEN 500
  ELSE IF PatientOfImage(i).doctorId # u THEN 403
  ELSE 0

getRetinalImageById_status(u, i) == IF imageGate(u, i) # 0 THEN imageGate(u, i) ELSE 200

getRetinalImageById(u, i) ==
  /\ UNCHANGED <<recommendations, genAI, patients, images, diagnoses, files, reqs>>
  /\ last' = Answer("getRetinalImageById", u, i, relImage(u, i), getRetinalImageById_status(u, i),
                    IF getRetinalImageById_status(u, i) = 200 THEN images[i] ELSE NoDoc, {}, Wrote)

\* np = 0: the body has no patientId
updateRetinalImage_status(u, i, np) ==
  IF imageGate(u, i) # 0 THEN imageGate(u, i)
  ELSE IF np # 0 /\ patients[np] = NoDoc THEN 404
  ELSE IF np # 0 /\ patients[np].doctorId # u THEN 403
  ELSE 200

updateRetinalImage(u, i, np) ==
  /\ images' = IF updateRetinalImage_status(u, i, np) = 200
               THEN [images EXCEPT ![i].patientId = IF np # 0 THEN np ELSE @]
               ELSE images
  /\ UNCHANGED <<recommendations, genAI, patients, diagnoses, files, reqs>>
  /\ last' = Answer("updateRetinalImage", u, i, relImage(u, i), updateRetinalImage_status(u, i, np),
                    IF updateRetinalImage_status(u, i, np) = 200 THEN images'[i] ELSE NoDoc, {}, Wrote)

\* ids no RetinalImage document and no file on disk has
FreeImageIds == {i \in ImageIds : images[i] = NoDoc /\ i \notin files}
\* the _id a new RetinalImage document gets; its file is the one multer
\* stored for the request
NewImageId == CHOOSE i \in FreeImageIds : \A j \in FreeImageIds : i <= j

\* The file part of an upload request: none, an image of an allowed type, a
\* file of another type.
UploadFiles == {"none", "jpeg", "other"}

\* routes: upload.single("image") runs before the validators and the
\* handler; multer's fileFilter stores a file of an allowed type only.
multerStored(file) == file = "jpeg"

\* The status uploadRetinalImage answers with.  p = 0 is a patientId that is
\* not a Mongo id; unlinked tells whether fs.unlink succeeds, created whether
\* RetinalImage.create does.  A file of another type is rejected by the
\* fileFilter and answered by the error middleware of app.js (500).  An
\* fs.unlink that throws at lines 582, 588 or 592 reaches the catch (500).
uploadRetinalImage_status(u, p, file, unlinked, created) ==
  IF file = "other" THEN 500
  ELSE IF p \notin PatientIds THEN 400
  ELSE IF file = "none" THEN 400
  ELSE IF patients[p] = NoDoc THEN (IF unlinked THEN 404 ELSE 500)
  ELSE IF patients[p].doctorId # u THEN (IF unlinked THEN 403 ELSE 500)
  ELSE IF ~created THEN 500
  ELSE 201

\* whether the handler calls fs.unlink(file.path): before the 404 and the 403
\* answer, and in the catch
uploadRetinalImage_unlinks(u, p, file, created) ==
  /\ multerStored(file)
  /\ p \in PatientIds
  /\ \/ patients[p] = NoDoc
     \/ patients[p].doctorId # u
     \/ ~created

\* uploadRetinalImage, lines 565-627, with the multer step of the route
uploadRetinalImage(u, p, file, unlinked, created) ==
  /\ multerStored(file) => FreeImageIds # {}
  /\ files' = IF multerStored(file) /\ ~(uploadRetinalImage_unlinks(u, p, file, created) /\ unlinked)
              THEN files \cup {NewImageId} ELSE files
  /\ images' = IF uploadRetinalImage_status(u, p, file, unlinked, created) = 201
               THEN [images EXCEPT ![NewImageId] = ImageDoc(p, Null)] ELSE images
  /\ UNCHANGED <<recommendations, genAI, patients, diagnoses, reqs>>
  /\ last' = [Answer("uploadRetinalImage", u, IF multerStored(file) THEN NewImageId ELSE 0,
                     IF p \in PatientIds THEN relPatient(u, p) ELSE "missing",
                     uploadRetinalImage_status(u, p, file, unlinked, created),
                     IF uploadRetinalImage_status(u, p, file, unlinked, created) = 201
                     THEN images'[NewImageId] ELSE NoDoc, {}, Wrote)
              EXCEPT !.unlinks = IF uploadRetinalImage_unlinks(u, p, file, created)
                                 THEN {"original"} ELSE {}]

\* Variant: the image is deleted without counting its diagnoses.
deleteRetinalImage_status_noDiagnosisCount(u, i) ==
  IF imageGate(u, i) # 0 THEN imageGate(u, i) ELSE 200

\* the access checks, then Diagnosis.countDocuments({ retinalImageId: i }) > 0
deleteRetinalImage_status(u, i) ==
  IF imageGate(u, i) # 0 THEN imageGate(u, i)
  ELSE IF DiagnosesOf(i) # {} THEN 400
  ELSE 200

\* lines 833-840, one try block: fs.unlink of the original file, then, when
\* yoloOutputPath is set, fs.unlink of the output file; an error of either
\* leaves the block for the catch, which logs it.  originalUnlinked and
\* outputUnlinked tell whether the unlink, if called, succeeds.
deleteRetinalImage_unlinks(i, originalUnlinked) ==
  IF originalUnlinked /\ images[i].yoloOutputPath # Null
  THEN {"original", "output"} ELSE {"original"}

deleteRetinalImage_logged(i, originalUnlinked, outputUnlinked) ==
  IF ~originalUnlinked THEN {"unlink"}
  ELSE IF images[i].yoloOutputPath # Null /\ ~outputUnlinked THEN {"unlink"}
  ELSE {}

\* deleteRetinalImage, lines 804-851: the checks, the unlinks, then
\* RetinalImage.deleteOne
deleteRetinalImage_unlinking(u, i, originalUnlinked, outputUnlinked) ==
  /\ files' = IF deleteRetinalImage_status(u, i) = 200 /\ originalUnlinked
              THEN files \ {i} ELSE files
  /\ images' = IF deleteRetinalImage_status(u, i) = 200
               THEN [images EXCEPT ![i] = NoDoc] ELSE images
  /\ UNCHANGED <<recommendations, genAI, patients, diagnoses, reqs>>
  /\ last' = [Answer("deleteRetinalImage", u, i, relImage(u, i), deleteRetinalImage_status(u, i),
                     NoDoc, {}, Wrote)
              EXCEPT !.logged = IF deleteRetinalImage_status(u, i) = 200
                                THEN deleteRetinalImage_logged(i, originalUnlinked, outputUnlinked)
                                ELSE {},
                     !.unlinks = IF deleteRetinalImage_status(u, i) = 200
                                 THEN deleteRetinalImage_unlinks(i, originalUnlinked)
                                 ELSE {}]

\* deleteRetinalImage on a disk where every unlink succeeds
deleteRetinalImage(u, i) == deleteRetinalImage_unlinking(u, i, TRUE, TRUE)


\* name: { $regex: search, $options: "i" }
nameMatches(name, search) ==
  \E k \in 0..(Len(name) - Len(search)) : SubSeq(name, k + 1, k + Len(search)) = search

\* The query getRetinalImages runs: search = <<>> and pid = 0 stand for an
\* absent parameter.  With a search the patientId filter is replaced by the
\* requesting doctor's patients of that name; without one the filter is the
\* patientId parameter alone, or nothing.
retinalImagesQuery(u, search, pid) ==
  IF search # <<>>
  THEN {i \in ImageIds : images[i] # NoDoc /\
          \E p \in PatientIds : /\ patients[p] # NoDoc
                                /\ patients[p].doctorId = u
                                /\ nameMatches(patients[p].name, search)
                                /\ images[i].patientId = p}
  ELSE IF pid # 0 THEN {i \in ImageIds : images[i] # NoDoc /\ images[i].patientId = pid}
  ELSE {i \in ImageIds : images[i] # NoDoc}

getRetinalImages(u, search, pid) ==
  /\ UNCHANGED <<recommendations, genAI, patients, images, diagnoses, files, reqs>>
  /\ last' = Answer("getRetinalImages", u, pid, Null, 200, NoDoc,
                    retinalImagesQuery(u, search, pid), Wrote)

(* ------------------------ diagnosis handlers -------------------------- *)
\* The checks of getDiagnosisById / updateDiagnosis / deleteDiagnosis on the
\* populated chain: 0 when they pass, else the status answered.
diagnosisGate(u, d) ==
  IF diagnoses[d] = NoDoc THEN 404
  ELSE IF \/ diagnoses[d].retinalImageId \notin ImageIds
          \/ images[diagnoses[d].retinalImageId] = NoDoc
          \/ PatientOfImage(diagnoses[d].retinalImageId) = NoDoc
          \/ PatientOfImage(diagnoses[d].retinalImageId).doctorId # u
  THEN 403
  ELSE 0

diagnosis_status(u, d) == IF diagnosisGate(u, d) # 0 THEN diagnosisGate(u, d) ELSE 200

getDiagnosisById(u, d) ==
  /\ UNCHANGED <<recommendations, genAI, patients, images, diagnoses, files, reqs>>
  /\ last' = Answer("getDiagnosisById", u, d, relDiagnosis(u, d), diagnosis_status(u, d),
                    IF diagnosis_status(u, d) = 200 THEN diagnoses[d] ELSE NoDoc, {}, Wrote)

updateDiagnosis(u, d, n) ==
  /\ diagnoses' = IF diagnosis_status(u, d) = 200
                  THEN [diagnoses EXCEPT ![d].notes = n] ELSE diagnoses
  /\ UNCHANGED <<recommendations, genAI, patients, images, files, reqs>>
  /\ last' = Answer("updateDiagnosis", u, d, relDiagnosis(u, d), diagnosis_status(u, d),
                    IF diagnosis_status(u, d) = 200 THEN diagnoses'[d] ELSE NoDoc, {}, Wrote)

\* the fs.unlink of deleteDiagnosis is tried and throws
unlinkFails(u, d, unlinked) ==
  /\ diagnosis_status(u, d) = 200
  /\ images[diagnoses[d].retinalImageId].yoloOutputPath # Null
  /\ ~unlinked

\* Variant: the error of fs.unlink is not caught where it is thrown and
\* reaches the handler's catch (500) before anything is written.
deleteDiagnosis_unlinkThrows(u, d, unlinked) ==
  /\ images' = IF diagnosis_status(u, d) = 200 /\ ~unlinkFails(u, d, unlinked)
               THEN [images EXCEPT ![diagnoses[d].retinalImageId].yoloOutputPath = Null]
               ELSE images
  /\ diagnoses' = IF diagnosis_status(u, d) = 200 /\ ~unlinkFails(u, d, unlinked)
                  THEN [diagnoses EXCEPT ![d] = NoDoc] ELSE diagnoses
  /\ UNCHANGED <<recommendations, genAI, patients, files, reqs>>
  /\ last' = [Answer("deleteDiagnosis", u, d, relDiagnosis(u, d),
                     IF unlinkFails(u, d, unlinked) THEN 500 ELSE diagnosis_status(u, d),
                     NoDoc, {}, Wrote)
              EXCEPT !.logged = IF unlinkFails(u, d, unlinked) THEN {"unlink"} ELSE {}]

\* When the image's yoloOutputPath is set: fs.unlink of the output file
\* (unlinked tells whether it succeeds; an error is caught and logged), then
\* RetinalImage.findByIdAndUpdate(..., { yoloOutputPath: null }).  Then
\* Diagnosis.deleteOne.
deleteDiagnosis(u, d, unlinked) ==
  /\ images' = IF diagnosis_status(u, d) = 200
               THEN [images EXCEPT ![diagnoses[d].retinalImageId].yoloOutputPath = Null]
               ELSE images
  /\ diagnoses' = IF diagnosis_status(u, d) = 200
                  THEN [diagnoses EXCEPT ![d] = NoDoc] ELSE diagnoses
  /\ UNCHANGED <<recommendations, genAI, patients, files, reqs>>
  /\ last' = [Answer("deleteDiagnosis", u, d, relDiagnosis(u, d), diagnosis_status(u, d),
                     NoDoc, {}, Wrote)
              EXCEPT !.logged = IF unlinkFails(u, d, unlinked) THEN {"unlink"} ELSE {}]

\* The value the filter path "retinalImageId.patientId" reads in a stored
\* Diagnosis: retinalImageId holds the image's ObjectId, not the image, so
\* the path leads to no value (0, no patient id).
storedImagePatientId(d) == 0

\* Diagnosis.find({ "retinalImageId.patientId": p })
diagnosesByPatientQuery(p) ==
  {d \in DiagIds : diagnoses[d] # NoDoc /\ storedImagePatientId(d) = p}

getDiagnosesByPatient_status(u, p) ==
  IF patients[p] = NoDoc THEN 404
  ELSE IF patients[p].doctorId # u THEN 403
  ELSE 200

\* Patient.findById and the ownership check, then the query, populate, and
\* the filter that drops the diagnoses whose image is gone.
getDiagnosesByPatient(u, p) ==
  /\ UNCHANGED <<recommendations, genAI, patients, images, diagnoses, files, reqs>>
  /\ last' = Answer("getDiagnosesByPatient", u, p, relPatient(u, p),
                    getDiagnosesByPatient_status(u, p), NoDoc,
                    IF getDiagnosesByPatient_status(u, p) = 200
                    THEN {d \in diagnosesByPatientQuery(p) :
                            /\ diagnoses[d].retinalImageId \in ImageIds
                            /\ images[diagnoses[d].retinalImageId] # NoDoc}
                    ELSE {},
                    Wrote)

(* ------------------------ severity statistics ------------------------- *)
\* Variant: every diagnosis visited replaces the patient's entry.
isMoreSevere_always(newSeverity, oldSeverity) == TRUE

\* const severityOrder = { normal: 0, low: 1, medium: 2, high: 3, severe: 4 }
severityOrder == [normal |-> 0, low |-> 1, medium |-> 2, high |-> 3, severe |-> 4]

isMoreSevere(newSeverity, oldSeverity) ==
  severityOrder[newSeverity] > severityOrder[oldSeverity]

\* Patient.find({ doctorId: u }), then RetinalImage.find({ patientId: $in }),
\* then Diagnosis.find({ retinalImageId: $in }): whether diagnosis d is in the
\* result, its image still stored (the filter after populate).
statDiagnosis(u, d) ==
  /\ diagnoses[d] # NoDoc
  /\ diagnoses[d].retinalImageId \in DOMAIN images
  /\ images[diagnoses[d].retinalImageId] # NoDoc
  /\ images[diagnoses[d].retinalImageId].patientId \in PatientIds
  /\ patients[images[diagnoses[d].retinalImageId].patientId] # NoDoc
  /\ patients[images[diagnoses[d].retinalImageId].patientId].doctorId = u

\* patientSeverityMap after the forEach has visited order[1..k]; order is the
\* order in which Diagnosis.find returned the documents.
RECURSIVE patientSeverityMap(_, _, _)
patientSeverityMap(u, order, k) ==
  IF k = 0 THEN [p \in PatientIds |-> Null]
  ELSE LET map == patientSeverityMap(u, order, k - 1)
           d == order[k]
       IN IF ~statDiagnosis(u, d) THEN map
          ELSE LET patientId == images[diagnoses[d].retinalImageId].patientId
                   currentSeverity == diagnoses[d].severityLevel
               IN IF map[patientId] = Null \/ isMoreSevere(currentSeverity, map[patientId])
                  THEN [map EXCEPT ![patientId] = currentSeverity]
                  ELSE map

\* severityCounts: per level, the entries of the map that hold it
severityCounts(map) ==
  [s \in SeverityEnum |-> Cardinality({p \in PatientIds : map[p] = s})]

\* the orders a find over the stored diagnoses can return them in
Orders ==
  {o \in [DOMAIN diagnoses -> DOMAIN diagnoses] :
     \A a, b \in DOMAIN diagnoses : o[a] = o[b] => a = b}

getPatientsBySeverity(u, order) ==
  /\ UNCHANGED <<recommendations, genAI, patients, images, diagnoses, files, reqs>>
  /\ last' = Answer("getPatientsBySeverity", u, 0, Null, 200,
                    severityCounts(patientSeverityMap(u, order, Cardinality(DOMAIN diagnoses))),
                    {}, Wrote)

\* The stored records the statistics are asked on: MaxStat images, each of a
\* patient (numbered in the order of their patients) and each with one
\* diagnosis of some severity; the first two patients are docA's.
StatInit ==
  /\ patients = [p \in PatientIds |->
       PatientDoc(IF p <= 2 THEN "docA" ELSE "docB", <<"a", "b">>, Null)]
  /\ images \in [1..MaxStat -> {ImageDoc(p, Null) : p \in PatientIds}]
  /\ diagnoses \in [1..MaxStat -> UNION {{DiagnosisDoc(i, s, "n0") : s \in SeverityEnum} : i \in 1..MaxStat}]
  /\ \A i \in 1..(MaxStat - 1) : images[i].patientId <= images[i + 1].patientId
  /\ \A d \in 1..MaxStat : diagnoses[d].retinalImageId = d
  /\ files = 1..MaxStat
  /\ reqs = [r \in ReqIds |-> IdleReq]
  /\ last = NoAnswer
  /\ recommendations = <<>>
  /\ genAI = NoPrompt

StatNext == \E u \in Doctors, order \in Orders : getPatientsBySeverity(u, order)

StatSpec == StatInit /\ [][StatNext]_vars

(* --------------------------- recommendations -------------------------- *)
\* req.user = { id, role } as the verified token carries them: the two
\* doctors and an administrator
Users == Doctors \cup {"adm"}
roleOf(u) == IF u \in Doctors THEN "doctor" ELSE "admin"

\* Texts are sequences of characters.
Run(c, n) == [k \in 1..n |-> c]
\* the initial value of recommendationText, "No recommendation generated."
NoRecommendation == <<"N", "o">>
\* The texts the service answers with: 1500 characters; 1000 characters
\* between a leading and a trailing blank; two characters and a trailing
\* blank; a blank only.
Texts ==
  { Run("x", 1000) \o Run("y", 500),
    <<" ">> \o Run("x", 999) \o <<"y", " ">>,
    <<"x", "y", " ">>,
    <<" ">> }
\* What genAI.models.generateContent ends with: it rejects ("throws"), or
\* resolves to a response with a text property ("text"), with the text
\* nested under response ("nested"), or with neither ("none").
Responses ==
  {[kind |-> "throws", text |-> <<>>], [kind |-> "none", text |-> <<>>]}
    \cup {[kind |-> "text", text |-> t] : t \in Texts}
    \cup {[kind |-> "nested", text |-> <<"x", "y", " ">>]}

\* String.prototype.trim: the text from its first to its last character
\* that is not white space
trim(t) ==
  IF \A k \in 1..Len(t) : t[k] = " " THEN <<>>
  ELSE SubSeq(t, CHOOSE k \in 1..Len(t) : t[k] # " " /\ \A j \in 1..(k - 1) : t[j] = " ",
                 CHOOSE k \in 1..Len(t) : t[k] # " " /\ \A j \in (k + 1)..Len(t) : t[j] = " ")

\* String.prototype.slice(0, end)
slice(t, end) == SubSeq(t, 1, IF Len(t) < end THEN Len(t) ELSE end)

\* recommendationController.js lines 77-89: the text taken from the response
recommendationText(response) ==
  IF response.kind \in {"text", "nested"} /\ response.text # <<>>
  THEN trim(response.text)
  ELSE NoRecommendation

\* Variant: the response's text is cut first and trimmed afterwards.
trimmedRecommendation_sliceFirst(response) ==
  IF response.kind \in {"text", "nested"} /\ response.text # <<>>
  THEN trim(slice(response.text, SliceEnd))
  ELSE NoRecommendation

\* line 91: recommendationText.slice(0, 1000)
trimmedRecommendation(response) == slice(recommendationText(response), SliceEnd)

RecommendationDoc(d, p, t, u) ==
  [diagnosisId |-> d, patientId |-> p, recommendationText |-> t, createdBy |-> u]

\* Variant: the role of the user is not looked at.
roleGate_open(u) == 0

\* lines 32-34: only doctors
roleGate(u) == IF roleOf(u) # "doctor" THEN 403 ELSE 0

\* The status generateRecommendation answers with; d = 0 is a diagnosisId
\* that is not a Mongo id.  A Recommendation whose recommendationText is
\* empty fails the schema's `required` and save() rejects.
generateRecommendation_status(u, d, response) ==
  IF d \notin DiagIds THEN 400
  ELSE IF roleGate(u) # 0 THEN roleGate(u)
  ELSE IF diagnoses[d] = NoDoc THEN 404
  ELSE IF diagnoses[d].retinalImageId \notin ImageIds THEN 404
  ELSE IF images[diagnoses[d].retinalImageId] = NoDoc THEN 404
  ELSE IF response.kind = "throws" THEN 500
  ELSE IF trimmedRecommendation(response) = <<>> THEN 500
  ELSE 201

\* generateContent is called once both documents were found
generateRecommendation_prompted(u, d, response) ==
  generateRecommendation_status(u, d, response) \in {500, 201}

\* generateRecommendation, lines 20-119.  The answer's data is the saved
\* Recommendation.
generateRecommendation(u, d, response) ==
  /\ generateRecommendation_status(u, d, response) = 201 => Len(recommendations) < MaxRecs
  /\ genAI' = IF generateRecommendation_prompted(u, d, response)
              THEN [prompt |-> d, response |-> response]
              ELSE genAI
  /\ recommendations' =
       IF generateRecommendation_status(u, d, response) = 201
       THEN Append(recommendations,
                   RecommendationDoc(d, images[diagnoses[d].retinalImageId].patientId,
                                     trimmedRecommendation(response), u))
       ELSE recommendations
  /\ UNCHANGED <<patients, images, diagnoses, files, reqs>>
  /\ last' = Answer("generateRecommendation", u, d,
                    IF d \in DiagIds THEN relDiagnosis(u, d) ELSE "missing",
                    generateRecommendation_status(u, d, response),
                    IF generateRecommendation_status(u, d, response) = 201
                    THEN recommendations'[Len(recommendations')] ELSE NoDoc,
                    {}, recommendations' # recommendations)

(* --------------------------- specifications --------------------------- *)
\* A client that awaits each answer before it sends its next request, against
\* endpoints that may answer an attempt in every way.
Next ==
  \/ \E u \in Doctors, i \in ImageIds : createDiagnosis_findById(1, u, i)
  \/ createDiagnosis_findOne(1)
  \/ \E o \in ThrownErrors \cup YoloBodies : runYOLO_attempt(1, o)
  \/ \E o \in ThrownErrors \cup ResNetBodies : runResNet_attempt(1, o)
  \/ createDiagnosis_save(1)
  \/ createDiagnosis_create(1)
  \/ createDiagnosis_populate(1)

Spec == Init /\ [][Next]_vars

\* NumReq requests handled at once, their steps interleaved at every await,
\* against endpoints that answer every attempt with a 2xx response.
RaceNext ==
  \/ \E r \in ReqIds, u \in Doctors, i \in ImageIds : createDiagnosis_findById(r, u, i)
  \/ \E r \in ReqIds : createDiagnosis_findOne(r)
  \/ \E r \in ReqIds, o \in YoloBodies : runYOLO_attempt(r, o)
  \/ \E r \in ReqIds, o \in ResNetBodies : runResNet_attempt(r, o)
  \/ \E r \in ReqIds : createDiagnosis_save(r)
  \/ \E r \in ReqIds : createDiagnosis_create(r)
  \/ \E r \in ReqIds : createDiagnosis_populate(r)

RaceSpec == Init /\ [][RaceNext]_vars

\* The stored records the single-step handlers are tried on: every patient
\* with one image, the first MaxImages diagnosis ids taken by one diagnosis
\* per image.
AccessInit ==
  /\ patients = [p \in PatientIds |->
       IF p = 1 THEN PatientDoc("docA", <<"a", "b">>, Null)
       ELSE PatientDoc("docB", <<"b", "c">>, IF p = 2 THEN "e1" ELSE Null)]
  /\ images = [i \in ImageIds |->
       ImageDoc(IF i <= MaxPatients THEN i ELSE 1, IF i = 1 THEN OutPath ELSE Null)]
  /\ diagnoses = [d \in DiagIds |->
       IF d <= MaxImages THEN DiagnosisDoc(d, "high", "n0") ELSE NoDoc]
  /\ files = ImageIds
  /\ reqs = [r \in ReqIds |-> IdleReq]
  /\ last = NoAnswer
  /\ recommendations = <<>>
  /\ genAI = NoPrompt

AccessNext ==
  \/ \E u \in Doctors, p \in PatientIds : getPatientById(u, p)
  \/ \E u \in Doctors, p \in PatientIds, n \in Names, e \in Emails \cup {Null} :
       updatePatient(u, p, n, e)
  \/ \E u \in Doctors, p \in PatientIds : deletePatient(u, p)
  \/ \E u \in Doctors, i \in ImageIds : getRetinalImageById(u, i)
  \/ \E u \in Doctors, i \in ImageIds, np \in PatientIds \cup {0} : updateRetinalImage(u, i, np)
  \/ \E u \in Doctors, i \in ImageIds : deleteRetinalImage(u, i)
  \/ \E u \in Doctors, d \in DiagIds : getDiagnosisById(u, d)
  \/ \E u \in Doctors, d \in DiagIds, n \in Notes : updateDiagnosis(u, d, n)
  \/ \E u \in Doctors, d \in DiagIds, unlinked \in BOOLEAN : deleteDiagnosis(u, d, unlinked)

AccessSpec == AccessInit /\ [][AccessNext]_vars

\* The list handlers, on the stored records the image handlers leave.
ListNext ==
  \/ \E u \in Doctors, p \in PatientIds : getDiagnosesByPatient(u, p)
  \/ \E u \in Doctors, s \in Searches \cup {<<>>}, p \in PatientIds \cup {0} : getRetinalImages(u, s, p)
  \/ \E u \in Doctors, i \in ImageIds, np \in PatientIds \cup {0} : updateRetinalImage(u, i, np)
  \/ \E u \in Doctors, i \in ImageIds : deleteRetinalImage(u, i)
  \/ \E u \in Doctors, d \in DiagIds, unlinked \in BOOLEAN : deleteDiagnosis(u, d, unlinked)

ListSpec == AccessInit /\ [][ListNext]_vars

\* One createDiagnosis request at a time, while deleteRetinalImage and
\* getDiagnosisById requests are handled between its awaits, against
\* endpoints that answer every attempt with a 2xx response.
WorkflowNext ==
  \/ \E u \in Doctors : createDiagnosis_invalid(1, u)
  \/ \E u \in Doctors, i \in ImageIds : createDiagnosis_findById(1, u, i)
  \/ createDiagnosis_findOne(1)
  \/ \E o \in YoloBodies : runYOLO_attempt(1, o)
  \/ \E o \in ResNetBodies : runResNet_attempt(1, o)
  \/ createDiagnosis_save(1)
  \/ createDiagnosis_create(1)
  \/ createDiagnosis_populate(1)
  \/ \E u \in Doctors, i \in ImageIds : deleteRetinalImage(u, i)
  \/ \E u \in Doctors, d \in DiagIds : getDiagnosisById(u, d)

WorkflowSpec == Init /\ [][WorkflowNext]_vars

\* The stored records the recommendations are asked on: every patient with
\* one image, and one Diagnosis, of the image of docA's patient.
RecInit ==
  /\ patients = [p \in PatientIds |->
       IF p = 1 THEN PatientDoc("docA", <<"a", "b">>, Null)
       ELSE PatientDoc("docB", <<"b", "c">>, IF p = 2 THEN "e1" ELSE Null)]
  /\ images = [i \in ImageIds |-> ImageDoc(IF i <= MaxPatients THEN i ELSE 1, Null)]
  /\ diagnoses = [d \in DiagIds |-> IF d = 1 THEN DiagnosisDoc(1, "high", "n0") ELSE NoDoc]
  /\ files = ImageIds
  /\ reqs = [r \in ReqIds |-> IdleReq]
  /\ last = NoAnswer
  /\ recommendations = <<>>
  /\ genAI = NoPrompt

\* generateRecommendation requests, one at a time, against a text-generation
\* service that may answer in every way.
RecNext ==
  \E u \in Users, d \in DiagIds \cup {0}, response \in Responses :
    generateRecommendation(u, d, response)

RecSpec == RecInit /\ [][RecNext]_vars

\* The stored records the patient handlers start from: docA's patient with
\* one image, the other patient and image ids free.
OwnerInit ==
  /\ patients = [p \in PatientIds |->
       IF p = 1 THEN PatientDoc("docA", <<"a", "b">>, Null) ELSE NoDoc]
  /\ images = [i \in ImageIds |-> IF i = 1 THEN ImageDoc(1, Null) ELSE NoDoc]
  /\ diagnoses = [d \in DiagIds |-> NoDoc]
  /\ files = {1}
  /\ reqs = [r \in ReqIds |-> IdleReq]
  /\ last = NoAnswer
  /\ recommendations = <<>>
  /\ genAI = NoPrompt

\* Patients created, updated (bodies without contactInfo) and deleted, while
\* the image is moved and deleted and diagnoses of it are created (one
\* request at a time, the endpoints answering with valid results) and
\* deleted.
OwnerNext ==
  \/ \E u \in Doctors, n \in Names : createPatient(u, n, Null)
  \/ \E u \in Doctors, p \in PatientIds, n \in Names : updatePatient(u, p, n, Null)
  \/ \E u \in Doctors, p \in PatientIds : deletePatient(u, p)
  \/ \E u \in Doctors, i \in ImageIds, np \in PatientIds : updateRetinalImage(u, i, np)
  \/ \E u \in Doctors, i \in ImageIds : deleteRetinalImage(u, i)
  \/ \E u \in Doctors : createDiagnosis_findById(1, u, 1)
  \/ createDiagnosis_findOne(1)
  \/ runYOLO_attempt(1, "dets_img")
  \/ runResNet_attempt(1, "high")
  \/ createDiagnosis_save(1)
  \/ createDiagnosis_create(1)
  \/ createDiagnosis_populate(1)
  \/ \E u \in Doctors, d \in DiagIds : deleteDiagnosis(u, d, TRUE)

OwnerSpec == OwnerInit /\ [][OwnerNext]_vars

\* One createDiagnosis request at a time, against endpoints that answer
\* every attempt with a 2xx response and a database whose operations may
\* reject.
FaultNext ==
  \/ \E u \in Doctors, i \in ImageIds : createDiagnosis_findById(1, u, i)
  \/ createDiagnosis_findOne(1)
  \/ \E o \in YoloBodies : runYOLO_attempt(1, o)
  \/ \E o \in ResNetBodies : runResNet_attempt(1, o)
  \/ createDiagnosis_save(1)
  \/ createDiagnosis_create(1)
  \/ createDiagnosis_populate(1)
  \/ createDiagnosis_dbRejects(1)

FaultSpec == Init /\ [][FaultNext]_vars

\* docA's createDiagnosis requests, one at a time, whose classifier may
\* answer with a severity outside the enum, and deleteRetinalImage requests
\* on a disk where an unlink may fail.
FileNext ==
  \/ \E i \in ImageIds : createDiagnosis_findById(1, "docA", i)
  \/ createDiagnosis_findOne(1)
  \/ runYOLO_attempt(1, "dets_img")
  \/ \E o \in {"high", "extreme"} : runResNet_attempt(1, o)
  \/ createDiagnosis_save(1)
  \/ createDiagnosis_create(1)
  \/ createDiagnosis_populate(1)
  \/ \E u \in Doctors, i \in ImageIds, originalUnlinked \in BOOLEAN, outputUnlinked \in BOOLEAN :
       deleteRetinalImage_unlinking(u, i, originalUnlinked, outputUnlinked)

FileSpec == Init /\ [][FileNext]_vars

\* Uploads and deletions of images, one request at a time, on a disk where
\* every unlink succeeds and with a database whose create may reject.
UploadNext ==
  \/ \E u \in Doctors, p \in PatientIds \cup {0}, file \in UploadFiles, created \in BOOLEAN :
       uploadRetinalImage(u, p, file, TRUE, created)
  \/ \E u \in Doctors, i \in ImageIds : deleteRetinalImage(u, i)

UploadSpec == OwnerInit /\ [][UploadNext]_vars

\* A client that awaits each answer before it sends its next request, against
\* endpoints whose attempts end with a network error or timeout, a valid or
\* an invalid response.
LiveYolo == {"transient", "dets_img", "nodets"}
LiveResNet == {"transient", "high", "missing"}

LiveNext ==
  \/ \E u \in Doctors, i \in ImageIds : createDiagnosis_findById(1, u, i)
  \/ createDiagnosis_findOne(1)
  \/ \E o \in LiveYolo : runYOLO_attempt(1, o)
  \/ \E o \in LiveResNet : runResNet_attempt(1, o)
  \/ createDiagnosis_save(1)
  \/ createDiagnosis_create(1)
  \/ createDiagnosis_populate(1)

\* The scheduling of one request: the event loop runs the continuation of
\* every await once the awaited promise has settled, every database
\* operation settles, and every axios.post settles (with a response, an error
\* or, after INFERENCE_TIMEOUT, a timeout) and every backoff timer fires.  No
\* request needs to arrive.
Fairness ==
  /\ WF_vars(createDiagnosis_findOne(1))
  /\ WF_vars(\E o \in LiveYolo : runYOLO_attempt(1, o))
  /\ WF_vars(\E o \in LiveResNet : runResNet_attempt(1, o))
  /\ WF_vars(createDiagnosis_save(1))
  /\ WF_vars(createDiagnosis_create(1))
  /\ WF_vars(createDiagnosis_populate(1))

LiveSpec == Init /\ [][LiveNext]_vars /\ Fairness

(* ======================================================================= *)
(* The claims                                                              *)
(* ======================================================================= *)
Calls(r) == {reqs[r].yolo, reqs[r].resnet}
Answered(r) == reqs[r].pc = "done"
ByOwner(r) == relImage(reqs[r].user, reqs[r].image) = "owner"

\* C1: a createDiagnosis by the owning doctor that arrives when a Diagnosis
\* is stored for its image (an earlier call was answered 201) is answered 400
\* and leaves exactly one Diagnosis for the image; a call answered 201 has
\* stored its Diagnosis.
C1_SecondCreateIsConflict ==
  \A r \in ReqIds :
    /\ (Answered(r) /\ ByOwner(r) /\ reqs[r].preCount >= 1) =>
         (reqs[r].status = 400 /\ Cardinality(DiagnosesOf(reqs[r].image)) = 1)
    /\ (Answered(r) /\ reqs[r].status = 201) =>
         (reqs[r].created \in DiagnosesOf(reqs[r].image))

C1_Witness ==
  \E r \in ReqIds :
    /\ Answered(r) /\ ByOwner(r) /\ reqs[r].preCount = 1 /\ reqs[r].status = 400
    /\ Cardinality(DiagnosesOf(reqs[r].image)) = 1

\* C2: in every reachable state, also while createDiagnosis requests for the
\* same image are handled at once, at most one Diagnosis is stored per
\* retinal image.
C2_OneDiagnosisPerImage ==
  \A i \in ImageIds : Cardinality(DiagnosesOf(i)) <= 1

\* C3: a createDiagnosis of which one inference call was rejected and the
\* other resolved (whichever settled first) is answered with no Diagnosis
\* stored for the image and the image's yoloOutputPath as the request found
\* it.
C3_NoPartialCommit ==
  \A r \in ReqIds :
    (Answered(r) /\ {reqs[r].yolo.st, reqs[r].resnet.st} = {"ok", "fail"}) =>
      /\ reqs[r].status = 500
      /\ DiagnosesOf(reqs[r].image) = {}
      /\ images[reqs[r].image].yoloOutputPath = reqs[r].preYolo

C3_Witness ==
  \E r \in ReqIds :
    /\ Answered(r) /\ reqs[r].status = 500
    /\ reqs[r].yolo.st = "ok" /\ reqs[r].yolo.out = "dets"
    /\ reqs[r].resnet.st = "fail"
    /\ reqs[r].preYolo = OutPath
    /\ images[reqs[r].image].yoloOutputPath = OutPath

ByIdOps ==
  {"getPatientById", "updatePatient", "deletePatient",
   "getRetinalImageById", "updateRetinalImage", "deleteRetinalImage",
   "getDiagnosisById", "updateDiagnosis", "deleteDiagnosis"}
PatientOps == {"getPatientById", "updatePatient", "deletePatient"}

\* C4: a get-by-id, update or delete by a doctor on a patient of another
\* doctor, or on an image or a diagnosis under such a patient, returns no
\* data of the resource and changes no stored record.
C4_NoForeignAccess ==
  (last.op \in ByIdOps /\ last.rel = "foreign") => (last.data = NoDoc /\ ~last.changed)

C4_Witness ==
  /\ last.op = "deleteDiagnosis" /\ last.rel = "foreign" /\ last.user = "docB"
  /\ last.status = 403 /\ diagnoses[last.target] # NoDoc

C6_ListOnlyOwnImages ==
  (last.op = "getRetinalImages") =>
    \A i \in last.list : relImage(last.user, i) = "owner"

\* the call was rejected with the error of an attempt that threw
RejectedByError(c) ==
  c.st = "fail" /\ c.out \notin YoloBodies \cup ResNetBodies \cup {"nofile"}

\* C7 as stated: a call whose every attempt failed with a retry-eligible
\* error is rejected after exactly MAX_RETRIES attempts.
C7_MaxRetriesAttempts ==
  \A r \in ReqIds : \A c \in Calls(r) :
    (RejectedByError(c) /\ c.errors = {"transient"}) => c.attempts = MAX_RETRIES

\* C7 as amended: a call whose every attempt failed is rejected after
\* exactly MAX_RETRIES + 1 attempts (the first and MAX_RETRIES retries),
\* never makes more, and its createDiagnosis is answered with one 500.
C7_RetriesPlusOneAttempts ==
  \A r \in ReqIds : \A c \in Calls(r) :
    /\ c.attempts <= MAX_RETRIES + 1
    /\ RejectedByError(c) =>
         (c.attempts = MAX_RETRIES + 1 /\ Answered(r) /\ reqs[r].status = 500)

C7_Witness ==
  \E r \in ReqIds :
    /\ RejectedByError(reqs[r].yolo) /\ reqs[r].yolo.errors = {"transient"}
    /\ reqs[r].yolo.attempts = MAX_RETRIES + 1
    /\ Answered(r) /\ reqs[r].status = 500

\* C8: with MAX_RETRIES = 3 a call is not given up before its third attempt,
\* a call whose first two attempts threw and whose third delivered a valid
\* response is resolved with 3 attempts made, and a createDiagnosis whose
\* calls both resolved (with a severity of the enum) is answered 201 with its
\* Diagnosis stored.
C8_ThirdAttemptSucceeds ==
  \A r \in ReqIds :
    /\ \A c \in Calls(r) :
         /\ RejectedByError(c) => c.attempts >= 3
         /\ c.st = "ok" => (c.errors = {} <=> c.attempts = 1)
    /\ (Answered(r) /\ reqs[r].yolo.st = "ok" /\ reqs[r].resnet.st = "ok"
          /\ reqs[r].resnet.out \in SeverityEnum) =>
         (reqs[r].status = 201 /\ reqs[r].created \in DiagnosesOf(reqs[r].image))

C8_Witness ==
  \E r \in ReqIds :
    /\ Answered(r) /\ reqs[r].status = 201
    /\ reqs[r].yolo.st = "ok" /\ reqs[r].yolo.attempts = 3
    /\ reqs[r].yolo.errors = {"transient"}
    /\ reqs[r].created \in DiagnosesOf(reqs[r].image)

InvalidBodies == {"nodets", "missing"}

\* C9: a delivered response is never retried: only thrown errors are, and a
\* call that was delivered a structurally invalid response is rejected with
\* no further attempt (after one attempt when it was the first answer).
C9_InvalidNotRetried ==
  \A r \in ReqIds : \A c \in Calls(r) :
    /\ c.errors \subseteq ThrownErrors
    /\ c.st = "run" => c.out = Null
    /\ c.out \in InvalidBodies => c.st = "fail"
    /\ (c.out \in InvalidBodies /\ c.errors = {}) => c.attempts = 1

C9_Witness ==
  \E r \in ReqIds :
    /\ reqs[r].resnet.st = "fail" /\ reqs[r].resnet.out = "missing"
    /\ reqs[r].resnet.attempts = 1
    /\ Answered(r) /\ reqs[r].status = 500

\* C10 as stated: an attempt that failed with an HTTP 4xx answer is not
\* followed by another attempt.
C10_No4xxRetry ==
  \A r \in ReqIds : \A c \in Calls(r) :
    "http4xx" \in c.errors => (c.st = "fail" /\ c.attempts = 1)

\* C10 as amended: an attempt is retried when it failed with a thrown error
\* of any kind (network, timeout, 5xx and also 4xx) while retries are left,
\* so a call rejected for 4xx answers has made MAX_RETRIES + 1 attempts; an
\* attempt that was delivered a 2xx response is followed by no other.
C10_EveryThrownErrorRetried ==
  \A r \in ReqIds : \A c \in Calls(r) :
    /\ RejectedByError(c) => (c.attempts = MAX_RETRIES + 1 /\ c.errors # {})
    /\ ("http4xx" \in c.errors /\ c.st = "run") => c.attempts \in 2..(MAX_RETRIES + 1)
    /\ c.out \in YoloBodies \cup ResNetBodies => c.st \in {"ok", "fail"}
    /\ (c.st = "run" /\ c.attempts > 1) => c.errors # {}

C10_Witness ==
  \E r \in ReqIds :
    /\ reqs[r].yolo.st = "run" /\ reqs[r].yolo.errors = {"http4xx"}
    /\ reqs[r].yolo.attempts = 3

\* C11: a runYOLO or runResNet call made when the image file is not on disk
\* is rejected with zero HTTP attempts made (and createDiagnosis is answered
\* 500); a call rejected for the missing file found none.
C11_NoFileNoAttempt ==
  \A r \in ReqIds : \A c \in Calls(r) :
    /\ (c.st # "idle" /\ ~reqs[r].preFile) =>
         (c.st = "fail" /\ c.attempts = 0 /\ Answered(r) /\ reqs[r].status = 500)
    /\ c.out = "nofile" => (~reqs[r].preFile /\ c.attempts = 0)
    /\ c.attempts = 0 => c.st \in {"idle", "fail"}

C11_Witness ==
  \E r \in ReqIds :
    /\ Answered(r) /\ reqs[r].status = 500 /\ ~reqs[r].preFile
    /\ reqs[r].yolo = NoFileCall /\ reqs[r].resnet = NoFileCall

\* C12 as stated: the duplicate check comes before the ownership check, so
\* every createDiagnosis for an image that has a Diagnosis is answered 400.
C12_DuplicateBeforeOwnership ==
  \A r \in ReqIds :
    (Answered(r) /\ reqs[r].preCount >= 1) => reqs[r].status = 400

\* C12 as amended: the steps are taken in the order image lookup (404),
\* ownership (403), duplicate check (400), inference, merge of the output
\* path, Diagnosis.create: a request by another doctor is answered 403 also
\* when the image has a Diagnosis, one by the owner is then answered 400;
\* inference runs only for an owner's request that found no Diagnosis, the
\* path is merged only after both calls resolved, and the Diagnosis is
\* created only after the merge.
C12_OwnershipBeforeDuplicate ==
  \A r \in ReqIds :
    /\ (Answered(r) /\ ~ByOwner(r)) => reqs[r].status = 403
    /\ (Answered(r) /\ ByOwner(r) /\ reqs[r].preCount >= 1) => reqs[r].status = 400
    /\ (\E c \in Calls(r) : c.st # "idle") => (ByOwner(r) /\ reqs[r].preCount = 0)
    /\ reqs[r].pc \in {"save", "create", "populate"} =>
         (reqs[r].yolo.st = "ok" /\ reqs[r].resnet.st = "ok")
    /\ reqs[r].pc = "create" =>
         images[reqs[r].image].yoloOutputPath = mergedOutputPath(reqs[r].yolo.out)
    /\ reqs[r].created # 0 => reqs[r].pc \in {"populate", "done"}

C12_Witness ==
  \E r \in ReqIds :
    /\ Answered(r) /\ ~ByOwner(r) /\ reqs[r].preCount = 1 /\ reqs[r].status = 403
    /\ Cardinality(DiagnosesOf(reqs[r].image)) = 1

\* C13: a step of createDiagnosis that rejects the request with 400
\* (validation, duplicate), 403 (ownership) or 404 (image not found), and
\* every step that leads to the duplicate check, is taken by a request that
\* has only looked records up, leaves both inference calls unissued and
\* writes no RetinalImage, no Diagnosis and no file.
C13_RejectBeforeEffects ==
  [][\A r \in ReqIds :
       (/\ reqs'[r] # reqs[r]
        /\ \/ reqs'[r].pc = "findOne"
           \/ reqs'[r].pc = "done" /\ reqs'[r].status \in {400, 403, 404})
       => /\ reqs[r].pc \in {"idle", "done", "findOne"}
          /\ reqs'[r].yolo = IdleCall /\ reqs'[r].resnet = IdleCall
          /\ UNCHANGED <<recommendations, genAI, images, diagnoses, files>>]_vars

C13_Witness ==
  \E r \in ReqIds :
    /\ Answered(r) /\ reqs[r].status = 404 /\ images[reqs[r].image] = NoDoc
    /\ reqs[r].yolo = IdleCall /\ reqs[r].resnet = IdleCall

\* C14: when a createDiagnosis has been answered 201, the image's
\* yoloOutputPath is the output_image the detector returned in that run, and
\* null when it returned none, whatever the path was when the request came.
C14_OutputPathOfThisRun ==
  \A r \in ReqIds :
    (Answered(r) /\ reqs[r].status = 201) =>
      images[reqs[r].image].yoloOutputPath =
        (IF reqs[r].yolo.out = "dets_img" THEN OutPath ELSE Null)

C14_Witness ==
  \E r \in ReqIds :
    /\ Answered(r) /\ reqs[r].status = 201
    /\ reqs[r].preYolo = OutPath /\ reqs[r].yolo.out = "dets"
    /\ images[reqs[r].image].yoloOutputPath = Null

\* C15: deletePatient on a patient that has a RetinalImage is answered 400 and
\* writes nothing, the Patient staying stored; on a patient without images it
\* is answered 200 for the owning doctor and the Patient is removed; it is
\* answered 200 in no other case.
C15_DeletePatientGuard ==
  (last.op = "deletePatient") =>
    /\ ImagesOf(last.target) # {} =>
         /\ last.status = 400 /\ ~last.changed
         /\ last.rel # "missing" => patients[last.target] # NoDoc
    /\ (ImagesOf(last.target) = {} /\ last.rel = "owner") =>
         (last.status = 200 /\ patients[last.target] = NoDoc)
    /\ last.status = 200 => (last.rel = "owner" /\ ImagesOf(last.target) = {})

C15_Witness ==
  /\ last.op = "deletePatient" /\ last.rel = "owner" /\ last.status = 200
  /\ last.target = 1 /\ patients[1] = NoDoc /\ images[1] = NoDoc

\* C16: deleteRetinalImage on an image that has a Diagnosis removes no file
\* and leaves the RetinalImage stored, and is answered 400 when the request
\* passes the access checks (it is the owner's); the record is removed only
\* by a request answered 200, which the image had no Diagnosis for.
C16_DeleteImageGuard ==
  (last.op = "deleteRetinalImage") =>
    /\ DiagnosesOf(last.target) # {} =>
         /\ ~last.changed /\ last.status # 200
         /\ last.rel # "missing" =>
              (images[last.target] # NoDoc /\ last.target \in files)
         /\ last.rel = "owner" => last.status = 400
    /\ last.changed =>
         /\ last.status = 200 /\ last.rel = "owner"
         /\ images[last.target] = NoDoc /\ DiagnosesOf(last.target) = {}
    /\ (last.rel = "owner" /\ DiagnosesOf(last.target) = {}) =>
         (last.status = 200 /\ images[last.target] = NoDoc)

C16_Witness ==
  /\ last.op = "deleteRetinalImage" /\ last.rel = "owner" /\ last.status = 400
  /\ DiagnosesOf(last.target) # {} /\ images[last.target] # NoDoc
  /\ last.target \in files

\* the order normal < low < medium < high < severe
SeverityRank == <<"normal", "low", "medium", "high", "severe">>
RankOf(s) == CHOOSE k \in 1..5 : SeverityRank[k] = s
\* the severities of the diagnoses of patient p's images
SeveritiesOf(p) ==
  {diagnoses[d].severityLevel :
     d \in {e \in DOMAIN diagnoses : /\ diagnoses[e] # NoDoc
                                      /\ images[diagnoses[e].retinalImageId].patientId = p}}
MostSevere(p) == CHOOSE s \in SeveritiesOf(p) : \A t \in SeveritiesOf(p) : RankOf(t) <= RankOf(s)

\* C17: whatever the order the diagnoses are visited in, getPatientsBySeverity
\* counts under each level exactly the patients of the requesting doctor
\* that have a Diagnosis and whose most severe Diagnosis (by normal < low <
\* medium < high < severe) is of that level, so each such patient once.
C17_CountsMaxSeverity ==
  (last.op = "getPatientsBySeverity") =>
    \A s \in SeverityEnum :
      last.data[s] = Cardinality({p \in PatientIds :
                        /\ patients[p].doctorId = last.user
                        /\ SeveritiesOf(p) # {}
                        /\ MostSevere(p) = s})

C17_Witness ==
  /\ last.op = "getPatientsBySeverity" /\ last.user = "docA"
  /\ \A d \in 1..3 : images[d].patientId = 1
  /\ diagnoses[1].severityLevel = "low" /\ diagnoses[2].severityLevel = "severe"
  /\ diagnoses[3].severityLevel = "medium"
  /\ last.data["severe"] = 1 /\ last.data["medium"] = 0 /\ last.data["low"] = 0

\* C18: a deleteDiagnosis by the owning doctor is answered 200 and leaves the
\* Diagnosis deleted and its image's yoloOutputPath null, also when the
\* unlink of the output file failed (the error is logged, no more).
C18_DeleteDiagnosisClearsPath ==
  [][(/\ last'.op = "deleteDiagnosis" /\ last'.rel = "owner"
      /\ diagnoses[last'.target] # NoDoc)
     => /\ last'.status = 200
        /\ diagnoses'[last'.target] = NoDoc
        /\ images'[diagnoses[last'.target].retinalImageId].yoloOutputPath = Null]_vars

C18_Witness ==
  /\ last.op = "deleteDiagnosis" /\ last.rel = "owner" /\ last.status = 200
  /\ last.logged = {"unlink"} /\ last.target = 1
  /\ diagnoses[1] = NoDoc /\ images[1].yoloOutputPath = Null

\* C19: a get, update or delete on a Diagnosis or RetinalImage whose
\* ownership chain has a missing link (the Diagnosis's image or the image's
\* patient is no longer stored), and a createDiagnosis on such an image, is
\* answered 404.
C19_MissingLinkIsNotFound ==
  /\ (last.op \in ByIdOps /\ last.rel = "broken") => last.status = 404
  /\ \A r \in ReqIds :
       (Answered(r) /\ reqs[r].image # 0 /\ reqs[r].status \in {403, 500}) =>
         relImage(reqs[r].user, reqs[r].image) # "broken"

\* C20: getDiagnosesByPatient by the doctor who owns the patient is answered
\* 200 with exactly the stored Diagnoses whose RetinalImage is the patient's.
C20_ListsPatientsDiagnoses ==
  (last.op = "getDiagnosesByPatient" /\ last.rel = "owner") =>
    /\ last.status = 200
    /\ last.list = {d \in DiagIds : /\ diagnoses[d] # NoDoc
                                    /\ diagnoses[d].retinalImageId \in ImagesOf(last.target)}

\* C21: a generateRecommendation with a well-formed diagnosisId asked by a
\* user whose role is not doctor is answered 403, with no prompt sent to the
\* text-generation service and no Recommendation saved.
C21_NonDoctorForbidden ==
  [][(/\ last'.op = "generateRecommendation"
      /\ roleOf(last'.user) # "doctor"
      /\ last'.target \in DiagIds)
     => /\ last'.status = 403
        /\ genAI' = genAI
        /\ recommendations' = recommendations]_vars

C21_Witness ==
  /\ last.op = "generateRecommendation" /\ last.user = "adm"
  /\ last.target = 1 /\ diagnoses[1] # NoDoc
  /\ last.status = 403 /\ ~last.changed

\* the Recommendation saved last
SavedLast == recommendations[Len(recommendations)]

\* C22: the text saved by a generateRecommendation answered 201 is the first
\* min(n, 1000) characters of the text extracted from the response (the
\* response's text, trimmed), n being the length of the extracted text; a
\* text of 1500 characters is saved as its first 1000.
C22_SavedIsPrefixOfExtracted ==
  (last.op = "generateRecommendation" /\ last.status = 201) =>
    LET extracted == recommendationText(genAI.response)
        saved == SavedLast.recommendationText
        n == Len(extracted)
    IN /\ Len(saved) = (IF n < 1000 THEN n ELSE 1000)
       /\ \A k \in 1..Len(saved) : saved[k] = extracted[k]
       /\ last.data = SavedLast

C22_Witness ==
  /\ last.op = "generateRecommendation" /\ last.status = 201
  /\ Len(genAI.response.text) = 1500
  /\ Len(SavedLast.recommendationText) = 1000
  /\ SavedLast.recommendationText[1000] = "x"

\* C27: a generateRecommendation by a doctor for a Diagnosis under a patient
\* of another doctor is denied: it is answered with an error, carries no
\* Recommendation and saves none.
C27_ForeignRecommendationDenied ==
  (last.op = "generateRecommendation" /\ last.rel = "foreign") =>
    /\ last.status \in {403, 404}
    /\ last.data = NoDoc
    /\ ~last.changed

\* C23: the doctorId of a Patient is the user who created it (createPatient)
\* and no later step changes it while the record exists.
C23_DoctorIdFixed ==
  [][\A p \in PatientIds :
       /\ (patients[p] # NoDoc /\ patients'[p] # NoDoc)
            => patients'[p].doctorId = patients[p].doctorId
       /\ (patients[p] = NoDoc /\ patients'[p] # NoDoc)
            => (last'.op = "createPatient" /\ patients'[p].doctorId = last'.user)]_vars

C23_Witness ==
  /\ last.op = "updatePatient" /\ last.status = 200 /\ last.target = 2
  /\ last.user = "docB" /\ patients[2] # NoDoc /\ patients[2].doctorId = "docB"

\* C24: when a createDiagnosis request has been answered, the Diagnosis it
\* created is stored if and only if the answer was 201, also when a database
\* operation after the create step rejected.
C24_CreatedIffAnswered201 ==
  \A r \in ReqIds :
    (Answered(r) /\ reqs[r].image # 0) =>
      ((reqs[r].created # 0 /\ diagnoses[reqs[r].created] # NoDoc) <=> reqs[r].status = 201)

\* C25: whenever no request is in flight, an image whose yoloOutputPath is
\* set has a Diagnosis, also after createDiagnosis requests whose Diagnosis
\* write was rejected.
C25_OutputPathImpliesDiagnosis ==
  Quiescent =>
    \A i \in ImageIds :
      (images[i] # NoDoc /\ images[i].yoloOutputPath # Null) => DiagnosesOf(i) # {}

\* C26: in every reachable state, also while requests are handled at once,
\* every Diagnosis refers to a stored RetinalImage and every RetinalImage to
\* a stored Patient.
C26_ReferencesResolve ==
  /\ \A d \in DiagIds : diagnoses[d] # NoDoc =>
       (diagnoses[d].retinalImageId \in ImageIds /\ images[diagnoses[d].retinalImageId] # NoDoc)
  /\ \A i \in ImageIds : images[i] # NoDoc =>
       (images[i].patientId \in PatientIds /\ patients[images[i].patientId] # NoDoc)

\* C28: an allowed deleteRetinalImage calls unlink on the original file and,
\* when yoloOutputPath is set, on the output file, whichever of the two
\* unlinks fails, and deletes the RetinalImage record.
C28_BothUnlinksAttempted ==
  [][(/\ last'.op = "deleteRetinalImage" /\ last'.status = 200
      /\ images[last'.target] # NoDoc)
     => /\ "original" \in last'.unlinks
        /\ images[last'.target].yoloOutputPath # Null => "output" \in last'.unlinks
        /\ images'[last'.target] = NoDoc]_vars

\* C29: when uploadRetinalImage has answered with a status other than 201,
\* no RetinalImage record was created for the request and the file stored
\* for it is no longer on disk.
C29_FailedUploadLeavesNothing ==
  (last.op = "uploadRetinalImage" /\ last.status # 201) =>
    /\ ~(last.changed /\ last.data # NoDoc)
    /\ last.target # 0 => (images[last.target] = NoDoc /\ last.target \notin files)

\* a createDiagnosis request arrives at slot r in this step
Arrives(r) ==
  /\ ~InFlight(r)
  /\ reqs'[r].yolo = IdleCall /\ reqs'[r].resnet = IdleCall /\ reqs'[r].created = 0

\* C30: every createDiagnosis request in flight is eventually answered, each
\* inference call having made at most MAX_RETRIES + 1 attempts, and once
\* answered its answer is not replaced by a second one.
C30_EventuallyAnsweredOnce ==
  /\ \A r \in ReqIds : InFlight(r) ~> Answered(r)
  /\ [](\A r \in ReqIds : \A c \in Calls(r) : c.attempts <= MAX_RETRIES + 1)
  /\ [][\A r \in ReqIds :
          (Answered(r) /\ ~Arrives(r)) =>
            (Answered(r)' /\ reqs'[r].status = reqs[r].status)]_vars

C30_Witness ==
  \E r \in ReqIds :
    /\ Answered(r) /\ reqs[r].status = 500
    /\ reqs[r].yolo.st = "fail" /\ reqs[r].yolo.attempts = MAX_RETRIES + 1
    /\ reqs[r].resnet.st = "run" /\ reqs[r].resnet.attempts = 2

====
